---- MODULE Spec2Model ----
(***************************************************************************)
(* A state-machine model of the api-template service:                      *)
(*   app/core/config.py   Settings, get_settings (lru_cache)               *)
(*   app/main.py          module import: settings, lifespan, FastAPI(),    *)
(*                        CORSMiddleware, include_router                   *)
(*   app/api/v1/router.py health_check, protected_route                    *)
(*   tests/conftest.py    the TestClient host of the application           *)
(* app/utils/dependencies.py (get_current_user) is not part of the         *)
(* sources; it is modelled from the specification's contract.              *)
(***************************************************************************)
EXTENDS Integers, Sequences, FiniteSets, TLC

\* ------------------------------------------------------------------ bounds
MaxReq == 2          \* requests the process receives over its lifetime
MaxCalls == 2        \* get_settings() calls made after app.main was imported
MaxRuns == 2         \* times the host enters the lifespan context
MaxEnvChanges == 1   \* times the environment is changed while the process runs

\* --------------------------------------------------------------- constants
NoValue == "<none>"                      \* Python None / an absent header
Unset == "<unset>"                       \* an environment variable that is not set

DefaultProjectName == "FastAPI App"
DefaultVersion == "1.0.0"
DefaultDescription == "FastAPI application with best practices"
DefaultOrigins == <<"http://localhost:3000">>

StartupLine == "Starting up..."
ShutdownLine == "Shutting down..."

\* The environment: raw strings, as os.environ / .env hold them.
ProjectNameEnv == {Unset}
OriginsEnv == {Unset,
               "[\"http://app.example\",\"http://localhost:3000\"]",
               "[\"*\"]",
               "localhost:3000"}
Environments == [PROJECT_NAME : ProjectNameEnv, ALLOWED_ORIGINS : OriginsEnv]
\* No environment read yet.
NoEnv == [PROJECT_NAME |-> NoValue, ALLOWED_ORIGINS |-> NoValue]

\* ----------------------------------------------------------------- state
VARIABLES
  env,        \* the process environment
  envChanges, \* how often it was changed (bound)
  heap,       \* every Settings instance constructed, by reference (index)
  lists,      \* every list object allocated, by reference (index)
  cache,      \* lru_cache of get_settings: 0 (empty) or a reference into heap
  firstEnv,   \* the environment read by the first successful construction
  pc,         \* position of the process: import of app.main, then the host
  settings,   \* app.main's module global `settings` (reference, 0 = unbound)
  app,        \* the FastAPI application object (NoValue until constructed)
  cors,       \* the CORSMiddleware registration and, once built, its state
  got,        \* references returned by later get_settings() calls, in order
  log,        \* stdout: the lines printed by lifespan
  runs,       \* how often the host entered the lifespan context
  req         \* the requests of the process, by id

vars == <<env, envChanges, heap, lists, cache, firstEnv, pc, settings, app,
          cors, got, log, runs, req>>

\* ------------------------------------------------- app/core/config.py

\* Coercion of the raw ALLOWED_ORIGINS value into List[str]: a complex field's
\* environment value is decoded as JSON and validated; a value that is not a
\* JSON list of strings is a configuration error.
ParseOrigins(raw) ==
  CASE raw = "[\"http://app.example\",\"http://localhost:3000\"]" ->
         [ok |-> TRUE, value |-> <<"http://app.example", "http://localhost:3000">>]
    [] raw = "[\"*\"]" ->
         [ok |-> TRUE, value |-> <<"*">>]
    [] OTHER ->
         [ok |-> FALSE, value |-> <<>>]

\* Settings(): each field from the environment (case-sensitive name) or its
\* declared default.  The result names the origins by value; the caller
\* allocates the list object.
SettingsInit(e) ==
  LET origins == IF e.ALLOWED_ORIGINS = Unset
                 THEN [ok |-> TRUE, value |-> DefaultOrigins]
                 ELSE ParseOrigins(e.ALLOWED_ORIGINS)
  IN [ok |-> origins.ok,
      PROJECT_NAME |-> IF e.PROJECT_NAME = Unset THEN DefaultProjectName
                       ELSE e.PROJECT_NAME,
      VERSION |-> DefaultVersion,
      DESCRIPTION |-> DefaultDescription,
      ALLOWED_ORIGINS |-> origins.value]

\* One call of Settings() against the current heap: the outcome of a
\* cache miss.  A failed construction allocates nothing and caches nothing.
Construct ==
  LET s == SettingsInit(env) IN
  IF s.ok
  THEN [ok |-> TRUE,
        ref |-> Len(heap) + 1,
        heap |-> Append(heap, [PROJECT_NAME |-> s.PROJECT_NAME,
                               VERSION |-> s.VERSION,
                               DESCRIPTION |-> s.DESCRIPTION,
                               ALLOWED_ORIGINS |-> Len(lists) + 1]),
        lists |-> Append(lists, s.ALLOWED_ORIGINS),
        cache |-> Len(heap) + 1,
        firstEnv |-> IF firstEnv = NoEnv THEN env ELSE firstEnv]
  ELSE [ok |-> FALSE, ref |-> 0, heap |-> heap, lists |-> lists,
        cache |-> cache, firstEnv |-> firstEnv]

\* A get_settings without the memoization: every call constructs.
get_settings_uncached ==
  LET c == Construct IN [c EXCEPT !.cache = cache]

\* A get_settings that remembers a failed construction as if it had succeeded.
get_settings_caches_failure ==
  IF cache # 0
  THEN [ok |-> TRUE, ref |-> cache, heap |-> heap, lists |-> lists,
        cache |-> cache, firstEnv |-> firstEnv]
  ELSE LET c == Construct IN
       IF c.ok THEN c
       ELSE [ok |-> TRUE,
             ref |-> Len(heap) + 1,
             heap |-> Append(heap, [PROJECT_NAME |-> DefaultProjectName,
                                    VERSION |-> DefaultVersion,
                                    DESCRIPTION |-> DefaultDescription,
                                    ALLOWED_ORIGINS |-> Len(lists) + 1]),
             lists |-> Append(lists, DefaultOrigins),
             cache |-> Len(heap) + 1,
             firstEnv |-> IF firstEnv = NoEnv THEN env ELSE firstEnv]

\* @lru_cache get_settings(): a hit returns the cached reference; a miss
\* constructs and, only if the construction returns, stores the reference.
get_settings ==
  IF cache # 0
  THEN [ok |-> TRUE, ref |-> cache, heap |-> heap, lists |-> lists,
        cache |-> cache, firstEnv |-> firstEnv]
  ELSE Construct

\* ------------------------------------------------------- app/main.py

NoCors == [registered |-> FALSE, origins |-> 0, built |-> FALSE, allow_all |-> FALSE]

\* A request slot before its request arrives.
Idle == [pc |-> "idle", method |-> NoValue, path |-> NoValue, cred |-> NoValue,
         origin |-> NoValue, acrm |-> NoValue, user |-> NoValue, steps |-> <<>>,
         resp |-> NoValue, servedAt |-> 0]

Init ==
  /\ env \in Environments
  /\ envChanges = 0
  /\ heap = <<>>
  /\ lists = <<>>
  /\ cache = 0
  /\ firstEnv = NoEnv
  /\ pc = "boot"
  /\ settings = 0
  /\ app = NoValue
  /\ cors = NoCors
  /\ got = <<>>
  /\ log = <<>>
  /\ runs = 0
  /\ req = [r \in 1..MaxReq |-> Idle]

\* main.py:7  settings = get_settings().  An exception ends the import: the
\* module is never bound, nothing after line 7 runs.
ImportSettings ==
  /\ pc = "boot"
  /\ LET g == get_settings IN
       /\ heap' = g.heap
       /\ lists' = g.lists
       /\ cache' = g.cache
       /\ firstEnv' = g.firstEnv
       /\ settings' = g.ref
       /\ pc' = IF g.ok THEN "create_app" ELSE "config_error"
  /\ UNCHANGED <<env, envChanges, app, cors, got, log, runs, req>>

\* main.py:17-22  app = FastAPI(title=..., version=..., description=..., lifespan=lifespan)
CreateApp ==
  /\ pc = "create_app"
  /\ app' = [title |-> heap[settings].PROJECT_NAME,
             version |-> heap[settings].VERSION,
             description |-> heap[settings].DESCRIPTION,
             routes |-> {}]
  /\ pc' = "add_cors"
  /\ UNCHANGED <<env, envChanges, heap, lists, cache, firstEnv, settings, cors,
                 got, log, runs, req>>

\* A registration that passes no allow_origins: the middleware's default,
\* an empty list of its own.
AddCorsNoOrigins ==
  /\ pc = "add_cors"
  /\ lists' = Append(lists, <<>>)
  /\ cors' = [registered |-> TRUE, origins |-> Len(lists) + 1,
              built |-> FALSE, allow_all |-> FALSE]
  /\ pc' = "include_router"
  /\ UNCHANGED <<env, envChanges, heap, cache, firstEnv, settings, app,
                 got, log, runs, req>>

\* main.py:25-31  app.add_middleware(CORSMiddleware, allow_origins=settings.ALLOWED_ORIGINS, ...)
\* The registration keeps the list object itself, not a copy.
AddCors ==
  /\ pc = "add_cors"
  /\ cors' = [registered |-> TRUE, origins |-> heap[settings].ALLOWED_ORIGINS,
              built |-> FALSE, allow_all |-> FALSE]
  /\ pc' = "include_router"
  /\ UNCHANGED <<env, envChanges, heap, lists, cache, firstEnv, settings, app,
                 got, log, runs, req>>

\* main.py:34  app.include_router(v1_router, prefix="/api/v1")
IncludeRouter ==
  /\ pc = "include_router"
  /\ app' = [app EXCEPT !.routes = {"/api/v1/health", "/api/v1/protected"}]
  /\ pc' = "imported"
  /\ UNCHANGED <<env, envChanges, heap, lists, cache, firstEnv, settings, cors,
                 got, log, runs, req>>

\* A later get_settings() call: conftest.py:7 (after its import of app.main on
\* line 4) and any further caller.  A call that raises ends the caller.
CallGetSettings ==
  /\ pc \in {"imported", "serving", "stopped"}
  /\ Len(got) < MaxCalls
  /\ LET g == get_settings IN
       /\ heap' = g.heap
       /\ lists' = g.lists
       /\ cache' = g.cache
       /\ firstEnv' = g.firstEnv
       /\ got' = Append(got, g.ref)
       /\ pc' = IF g.ok THEN pc ELSE "config_error"
  /\ UNCHANGED <<env, envChanges, settings, app, cors, log, runs, req>>

\* The environment changes while the process runs.
ChangeEnv ==
  /\ pc \notin {"boot", "config_error"}
  /\ envChanges < MaxEnvChanges
  /\ \E e \in Environments \ {env} : env' = e
  /\ envChanges' = envChanges + 1
  /\ UNCHANGED <<heap, lists, cache, firstEnv, pc, settings, app, cors, got,
                 log, runs, req>>

\* A lifespan that prints nothing on startup.
lifespan_startup_silent == log

\* main.py:9-15  lifespan: the part before the yield, run by the host on
\* entering the application (conftest.py:12 `with TestClient(app)`, or a
\* server's startup).  The first entry also builds the middleware stack:
\* CORSMiddleware keeps the registered list object and computes
\* allow_all_origins from it.
lifespan_startup == Append(log, StartupLine)

\* main.py:9-15  lifespan: the part after the yield.
lifespan_shutdown == Append(log, ShutdownLine)

LifespanStartup ==
  /\ pc \in {"imported", "stopped"}
  /\ runs < MaxRuns
  /\ log' = lifespan_startup
  /\ cors' = IF cors.built THEN cors
             ELSE [cors EXCEPT !.built = TRUE,
                               !.allow_all = \E i \in 1..Len(lists[cors.origins]) :
                                                lists[cors.origins][i] = "*"]
  /\ runs' = runs + 1
  /\ pc' = "serving"
  /\ UNCHANGED <<env, envChanges, heap, lists, cache, firstEnv, settings, app,
                 got, req>>

\* The host leaves the application (conftest.py:12-13: the `with` block ends
\* when the test is over, its requests answered).
LifespanShutdown ==
  /\ pc = "serving"
  /\ \A r \in 1..MaxReq : req[r].pc \in {"idle", "done"}
  /\ log' = lifespan_shutdown
  /\ pc' = "stopped"
  /\ UNCHANGED <<env, envChanges, heap, lists, cache, firstEnv, settings, app,
                 cors, got, runs, req>>

\* ------------------------------------------------ the HTTP surface

HealthPath == "/api/v1/health"
ProtectedPath == "/api/v1/protected"
Paths == {HealthPath, ProtectedPath}

Credentials == {NoValue, "Bearer invalid_token", "Bearer fake_test_token",
                "Bearer other_token"}
Origins == {"http://localhost:3000", "http://evil.example"}
RequestedMethods == {"GET", "PURGE"}
AllMethods == {"DELETE", "GET", "HEAD", "OPTIONS", "PATCH", "POST", "PUT"}

\* The requests a client may send: a GET of a route with any Authorization and
\* Origin header (or none), and a CORS preflight of a route.
Requests ==
  [method : {"GET"}, path : Paths, cred : Credentials,
   origin : Origins \cup {NoValue}, acrm : {NoValue}]
  \cup
  [method : {"OPTIONS"}, path : Paths, cred : {NoValue},
   origin : Origins, acrm : RequestedMethods]

Response(status, body, www) ==
  [status |-> status, body |-> body, www |-> www, acao |-> NoValue, acac |-> NoValue]

\* app/utils/dependencies.py get_current_user: the credentials of a request
\* to a user identity, or an authentication error (401, a detail, the
\* challenge header).
get_current_user(cred) ==
  CASE cred = "Bearer fake_test_token" -> [ok |-> TRUE, user |-> "test_user"]
    [] cred = "Bearer other_token" -> [ok |-> TRUE, user |-> "other_user"]
    [] OTHER -> [ok |-> FALSE,
                 error |-> Response(401, [detail |-> "Could not validate credentials"],
                                    "Bearer")]

\* CORSMiddleware (main.py:25-31): allow_origins is the registered list,
\* allow_credentials=True, allow_methods=["*"], allow_headers=["*"].
is_allowed_origin(origin) ==
  \/ cors.allow_all
  \/ \E i \in 1..Len(lists[cors.origins]) : lists[cors.origins][i] = origin

\* The headers the middleware adds to the response of a request that carries
\* an Origin header (requests carry no cookie).
cors_simple(origin, resp) ==
  IF origin = NoValue THEN resp
  ELSE [resp EXCEPT !.acac = "true",
                    !.acao = IF cors.allow_all THEN "*"
                             ELSE IF is_allowed_origin(origin) THEN origin
                             ELSE NoValue]

\* A preflight answered from a fixed origin list instead of Settings.
cors_preflight_fixed(origin, acrm) ==
  LET okOrigin == origin = "http://localhost:3000"
      okMethod == acrm \in AllMethods
  IN [status |-> IF okOrigin /\ okMethod THEN 200 ELSE 400,
      body |-> [text |-> IF okOrigin /\ okMethod THEN "OK" ELSE "Disallowed CORS"],
      www |-> NoValue,
      acao |-> IF okOrigin THEN origin ELSE NoValue,
      acac |-> "true"]

\* The middleware's answer to a preflight: with credentials allowed the
\* allow-origin header names the requesting origin, if it is allowed.
cors_preflight(origin, acrm) ==
  LET okOrigin == is_allowed_origin(origin)
      okMethod == acrm \in AllMethods
  IN [status |-> IF okOrigin /\ okMethod THEN 200 ELSE 400,
      body |-> [text |-> IF okOrigin /\ okMethod THEN "OK"
                         ELSE IF okMethod THEN "Disallowed CORS origin"
                         ELSE IF okOrigin THEN "Disallowed CORS method"
                         ELSE "Disallowed CORS origin, method"],
      www |-> NoValue,
      acao |-> IF okOrigin THEN origin ELSE NoValue,
      acac |-> "true"]

\* ------------------------------------------- app/api/v1/router.py

\* A health check that reports on the requests seen so far.
health_check_stateful ==
  IF \E r \in 1..MaxReq : req[r].pc = "done" /\ req[r].resp.status = 401
  THEN [status |-> "degraded"]
  ELSE [status |-> "healthy"]

\* router.py:6-8
health_check == [status |-> "healthy"]

\* A protected route that reports a fixed user.
protected_route_fixed_user(current_user) ==
  [message |-> "This is a protected route", user |-> "test_user"]

\* router.py:10-12
protected_route(current_user) ==
  [message |-> "This is a protected route", user |-> current_user]

Answer(r, resp) ==
  [req[r] EXCEPT !.pc = "done",
                 !.resp = cors_simple(req[r].origin, resp),
                 !.servedAt = Len(log)]

\* A request arrives while the application is being served.
Receive(r) ==
  /\ pc = "serving"
  /\ req[r].pc = "idle"
  /\ \A q \in 1..(r - 1) : req[q].pc # "idle"
  /\ \E x \in Requests :
       req' = [req EXCEPT ![r] = [Idle EXCEPT !.pc = "received",
                                              !.method = x.method,
                                              !.path = x.path,
                                              !.cred = x.cred,
                                              !.origin = x.origin,
                                              !.acrm = x.acrm]]
  /\ UNCHANGED <<env, envChanges, heap, lists, cache, firstEnv, pc, settings,
                 app, cors, got, log, runs>>

\* The middleware answers a preflight itself; no route is involved.
Preflight(r) ==
  /\ req[r].pc = "received"
  /\ req[r].method = "OPTIONS"
  /\ req' = [req EXCEPT ![r] = [@ EXCEPT !.pc = "done",
                                         !.resp = cors_preflight(req[r].origin,
                                                                 req[r].acrm),
                                         !.servedAt = Len(log)]]
  /\ UNCHANGED <<env, envChanges, heap, lists, cache, firstEnv, pc, settings,
                 app, cors, got, log, runs>>

\* GET /api/v1/health (router.py:6-8): no dependency, the handler runs.
HealthCheck(r) ==
  /\ req[r].pc = "received"
  /\ req[r].method = "GET"
  /\ req[r].path = HealthPath
  /\ req' = [req EXCEPT ![r] = [Answer(r, Response(200, health_check, NoValue))
                                  EXCEPT !.steps = Append(@, "health_check")]]
  /\ UNCHANGED <<env, envChanges, heap, lists, cache, firstEnv, pc, settings,
                 app, cors, got, log, runs>>

\* A route that takes every caller for an anonymous user.
ResolveSkipped(r) ==
  /\ req[r].pc = "received"
  /\ req[r].method = "GET"
  /\ req[r].path = ProtectedPath
  /\ req' = [req EXCEPT ![r] = [@ EXCEPT !.pc = "resolved", !.user = "anonymous"]]
  /\ UNCHANGED <<env, envChanges, heap, lists, cache, firstEnv, pc, settings,
                 app, cors, got, log, runs>>

\* A resolver error that takes the process down with it.
ResolveFatal(r) ==
  /\ req[r].pc = "received"
  /\ req[r].method = "GET"
  /\ req[r].path = ProtectedPath
  /\ LET v == get_current_user(req[r].cred) IN
       /\ req' = [req EXCEPT ![r] =
                    IF v.ok
                    THEN [@ EXCEPT !.pc = "resolved", !.user = v.user,
                                   !.steps = Append(@, "get_current_user")]
                    ELSE [Answer(r, v.error)
                            EXCEPT !.steps = Append(@, "get_current_user")]]
       /\ pc' = IF v.ok THEN pc ELSE "crashed"
  /\ UNCHANGED <<env, envChanges, heap, lists, cache, firstEnv, settings,
                 app, cors, got, log, runs>>

\* GET /api/v1/protected (router.py:11): Depends(get_current_user) is
\* resolved before the handler is called; its error becomes the response.
Resolve(r) ==
  /\ req[r].pc = "received"
  /\ req[r].method = "GET"
  /\ req[r].path = ProtectedPath
  /\ LET v == get_current_user(req[r].cred) IN
       req' = [req EXCEPT ![r] =
                 IF v.ok
                 THEN [@ EXCEPT !.pc = "resolved", !.user = v.user,
                                !.steps = Append(@, "get_current_user")]
                 ELSE [Answer(r, v.error)
                         EXCEPT !.steps = Append(@, "get_current_user")]]
  /\ UNCHANGED <<env, envChanges, heap, lists, cache, firstEnv, pc, settings,
                 app, cors, got, log, runs>>

\* A handler that is called without waiting for its dependency.
ProtectedRouteUnguarded(r) ==
  /\ req[r].pc \in {"received", "resolved"}
  /\ req[r].method = "GET"
  /\ req[r].path = ProtectedPath
  /\ req' = [req EXCEPT ![r] =
               [Answer(r, Response(200, protected_route(req[r].user), NoValue))
                  EXCEPT !.steps = Append(@, "protected_route")]]
  /\ UNCHANGED <<env, envChanges, heap, lists, cache, firstEnv, pc, settings,
                 app, cors, got, log, runs>>

\* GET /api/v1/protected (router.py:10-12): the handler body, called with
\* the resolved dependency.
ProtectedRoute(r) ==
  /\ req[r].pc = "resolved"
  /\ req' = [req EXCEPT ![r] =
               [Answer(r, Response(200, protected_route(req[r].user), NoValue))
                  EXCEPT !.steps = Append(@, "protected_route")]]
  /\ UNCHANGED <<env, envChanges, heap, lists, cache, firstEnv, pc, settings,
                 app, cors, got, log, runs>>

Next ==
  \/ ImportSettings
  \/ CreateApp
  \/ AddCors
  \/ IncludeRouter
  \/ CallGetSettings
  \/ ChangeEnv
  \/ LifespanStartup
  \/ LifespanShutdown
  \/ \E r \in 1..MaxReq : Receive(r)
  \/ \E r \in 1..MaxReq : Preflight(r)
  \/ \E r \in 1..MaxReq : HealthCheck(r)
  \/ \E r \in 1..MaxReq : Resolve(r)
  \/ \E r \in 1..MaxReq : ProtectedRoute(r)

Spec == Init /\ [][Next]_vars

\* ------------------------------------- a caller holding the instance

\* A caller of get_settings() assigns a field of the instance it was given.
\* Settings declares no frozen configuration (config.py:12-15), so the
\* assignment is accepted.
AssignField ==
  /\ pc \in {"imported", "serving", "stopped"}
  /\ Len(got) > 0
  /\ heap[got[1]].PROJECT_NAME # "Renamed"
  /\ heap' = [heap EXCEPT ![got[1]].PROJECT_NAME = "Renamed"]
  /\ UNCHANGED <<env, envChanges, lists, cache, firstEnv, pc, settings, app,
                 cors, got, log, runs, req>>

\* A caller of get_settings() appends to the ALLOWED_ORIGINS list of the
\* instance it was given (config.py:10: a plain list).
AppendOrigin ==
  /\ pc \in {"imported", "serving", "stopped"}
  /\ Len(got) > 0
  /\ LET l == heap[got[1]].ALLOWED_ORIGINS IN
       /\ \A i \in 1..Len(lists[l]) : lists[l][i] # "http://evil.example"
       /\ lists' = [lists EXCEPT ![l] = Append(@, "http://evil.example")]
  /\ UNCHANGED <<env, envChanges, heap, cache, firstEnv, pc, settings, app,
                 cors, got, log, runs, req>>

NextCaller ==
  \/ Next
  \/ AssignField
  \/ AppendOrigin

SpecCaller == Init /\ [][NextCaller]_vars

\* ------------------------------------------------------- properties

Done(r) == req[r].pc = "done"
IsGet(r, path) == req[r].method = "GET" /\ req[r].path = path
Elems(seq) == {seq[i] : i \in 1..Len(seq)}
Count(seq, x) == Cardinality({i \in 1..Len(seq) : seq[i] = x})

\* The field values of the Settings instance `ref`, the list by value.
SettingsValues(ref) ==
  [PROJECT_NAME |-> heap[ref].PROJECT_NAME,
   VERSION |-> heap[ref].VERSION,
   DESCRIPTION |-> heap[ref].DESCRIPTION,
   ALLOWED_ORIGINS |-> lists[heap[ref].ALLOWED_ORIGINS]]

\* The field values Settings() yields in environment e.
ValuesFrom(e) ==
  LET s == SettingsInit(e) IN
  [PROJECT_NAME |-> s.PROJECT_NAME, VERSION |-> s.VERSION,
   DESCRIPTION |-> s.DESCRIPTION, ALLOWED_ORIGINS |-> s.ALLOWED_ORIGINS]

\* C1: every answered GET /api/v1/health has status 200 and the body
\* {"status": "healthy"}, whatever its Authorization header and whatever
\* requests were handled before it.
C1_HealthAlwaysHealthy ==
  \A r \in 1..MaxReq :
    Done(r) /\ IsGet(r, HealthPath) =>
      /\ req[r].resp.status = 200
      /\ req[r].resp.body = [status |-> "healthy"]

\* A health request with an invalid token answered after a 401 was given.
C1_Witness ==
  /\ Done(1) /\ req[1].resp.status = 401
  /\ Done(2) /\ IsGet(2, HealthPath) /\ req[2].cred = "Bearer invalid_token"
  /\ req[2].resp.status = 200

\* C2: every answered GET /api/v1/protected whose credentials the resolver
\* rejects has status 401, a body with a `detail` field and the header
\* WWW-Authenticate: Bearer.
C2_RejectedIs401 ==
  \A r \in 1..MaxReq :
    Done(r) /\ IsGet(r, ProtectedPath) /\ ~get_current_user(req[r].cred).ok =>
      /\ req[r].resp.status = 401
      /\ "detail" \in DOMAIN req[r].resp.body
      /\ req[r].resp.www = "Bearer"

\* Both rejected cases answered: no header, and an invalid bearer token.
C2_Witness ==
  /\ Done(1) /\ IsGet(1, ProtectedPath) /\ req[1].cred = NoValue
  /\ Done(2) /\ IsGet(2, ProtectedPath) /\ req[2].cred = "Bearer invalid_token"
  /\ req[1].resp.status = 401 /\ req[2].resp.status = 401

\* C3: every answered GET /api/v1/protected whose credential the resolver
\* accepts has status 200, the fixed message, and a `user` field that is
\* present, non-null and equal to the identity the resolver yielded.
C3_AcceptedEchoesUser ==
  \A r \in 1..MaxReq :
    Done(r) /\ IsGet(r, ProtectedPath) /\ get_current_user(req[r].cred).ok =>
      /\ req[r].resp.status = 200
      /\ "message" \in DOMAIN req[r].resp.body
      /\ req[r].resp.body.message = "This is a protected route"
      /\ "user" \in DOMAIN req[r].resp.body
      /\ req[r].resp.body.user # NoValue
      /\ req[r].resp.body.user = get_current_user(req[r].cred).user

\* Two accepted requests of different users answered.
C3_Witness ==
  /\ Done(1) /\ IsGet(1, ProtectedPath) /\ req[1].cred = "Bearer fake_test_token"
  /\ Done(2) /\ IsGet(2, ProtectedPath) /\ req[2].cred = "Bearer other_token"
  /\ req[1].resp.body.user = "test_user" /\ req[2].resp.body.user = "other_user"

\* C4: the handler body of protected_route runs only after the resolver ran
\* for the same request and accepted it; a request that is rejected or not
\* yet resolved has not run the body.
C4_ResolverBeforeBody ==
  \A r \in 1..MaxReq :
    /\ "protected_route" \in Elems(req[r].steps) =>
         /\ req[r].steps = <<"get_current_user", "protected_route">>
         /\ get_current_user(req[r].cred).ok
         /\ req[r].user = get_current_user(req[r].cred).user
    /\ req[r].pc \in {"received", "resolved"} =>
         "protected_route" \notin Elems(req[r].steps)

\* One request ran the body after its resolver, another was rejected.
C4_Witness ==
  /\ Done(1) /\ req[1].steps = <<"get_current_user", "protected_route">>
  /\ Done(2) /\ req[2].steps = <<"get_current_user">>

\* C5: Settings is constructed at most once per process; once the first
\* get_settings() call has returned, the cache holds that instance for good,
\* every later call returns the same reference, and its values are those of
\* the environment read at the first call, whatever the environment is now.
C5_MemoizedSingleton ==
  /\ Len(heap) <= 1
  /\ pc \notin {"boot", "config_error"} => cache = 1 /\ settings = cache
  /\ \A i \in 1..Len(got) : got[i] = settings /\ got[i] = cache
  /\ cache # 0 => SettingsValues(cache) = ValuesFrom(firstEnv)

\* Two later calls, made after the environment changed to one that would
\* construct different values.
C5_Witness ==
  /\ Len(got) >= 2
  /\ envChanges = 1
  /\ SettingsInit(env).ok
  /\ ValuesFrom(env) # SettingsValues(cache)

\* C6: a preflight to any route from an origin that is a member of
\* Settings.ALLOWED_ORIGINS is answered with an allow-origin header naming
\* that origin and with credentials allowed, and with status 200 whenever
\* the requested method is a standard one.
C6_PreflightReflectsAllowedOrigin ==
  \A r \in 1..MaxReq :
    /\ Done(r)
    /\ req[r].method = "OPTIONS"
    /\ req[r].origin \in Elems(lists[heap[cache].ALLOWED_ORIGINS])
    => /\ req[r].resp.acao = req[r].origin
       /\ req[r].resp.acac = "true"
       /\ req[r].acrm \in AllMethods => req[r].resp.status = 200

\* Preflights of both routes answered from an origin the environment's own
\* ALLOWED_ORIGINS lists.
C6_Witness ==
  /\ firstEnv.ALLOWED_ORIGINS \notin {NoValue, Unset}
  /\ Done(1) /\ req[1].method = "OPTIONS" /\ req[1].path = HealthPath
  /\ Done(2) /\ req[2].method = "OPTIONS" /\ req[2].path = ProtectedPath
  /\ req[1].resp.acao = "http://localhost:3000"
  /\ req[2].resp.acao = "http://localhost:3000"

LifespanOrderInv ==
  /\ \A i \in 1..Len(log) :
       log[i] = IF i % 2 = 1 THEN StartupLine ELSE ShutdownLine
  /\ Count(log, StartupLine) = runs
  /\ (pc = "serving") <=> (Len(log) % 2 = 1)
  /\ \A r \in 1..MaxReq :
       /\ req[r].pc \in {"received", "resolved"} => pc = "serving"
       /\ Done(r) => /\ req[r].servedAt \in 1..Len(log)
                     /\ log[req[r].servedAt] = StartupLine

LifespanHookOnlyLogs ==
  log' # log =>
    /\ Len(log') = Len(log) + 1
    /\ UNCHANGED <<env, envChanges, heap, lists, cache, firstEnv, settings,
                   app, got, req>>

\* C7 (as amended): in each run of the lifespan hook the startup line is
\* printed once, before any request of that run is answered, and the
\* shutdown line once, after it; the lines alternate, one pair per run; no
\* request is in flight or answered between a shutdown line and the next
\* startup line; printing a line changes no other state of the program.
C7_LifespanOrder == []LifespanOrderInv /\ [][LifespanHookOnlyLogs]_vars

\* Two runs of the hook in one process, a request answered in each.
C7_Witness ==
  /\ runs = 2
  /\ Len(log) = 4
  /\ Done(1) /\ req[1].servedAt = 1
  /\ Done(2) /\ req[2].servedAt = 3

\* C7 (as claimed): each line is printed exactly once in the process, and no
\* request is answered after the shutdown line.
C7_ExactlyOncePerProcess ==
  /\ Count(log, StartupLine) <= 1
  /\ Count(log, ShutdownLine) <= 1
  /\ pc \in {"serving", "stopped"} => Count(log, StartupLine) = 1
  /\ pc = "stopped" => Count(log, ShutdownLine) = 1
  /\ \A r \in 1..MaxReq :
       Done(r) => ShutdownLine \notin Elems(SubSeq(log, 1, req[r].servedAt))

\* C8: once constructed, the values of the cached Settings instance are those
\* it was constructed with, whatever a holder of the instance does with it.
C8_SettingsNeverChange ==
  cache # 0 => SettingsValues(cache) = ValuesFrom(firstEnv)

\* C9: an environment value that does not coerce makes the first
\* get_settings() call fail: nothing is cached or constructed, the
\* application is never assembled, no line is printed, no request is
\* received, and the process takes no further step (no retry).
C9_ConfigErrorIsFatal ==
  /\ (envChanges = 0 /\ ~SettingsInit(env).ok) => pc \in {"boot", "config_error"}
  /\ pc = "config_error" =>
       /\ ~SettingsInit(env).ok
       /\ cache = 0 /\ heap = <<>> /\ lists = <<>> /\ settings = 0
       /\ app = NoValue /\ ~cors.registered
       /\ got = <<>> /\ log = <<>> /\ runs = 0
       /\ \A r \in 1..MaxReq : req[r] = Idle
       /\ ~ENABLED Next

\* The import of app.main failed on a malformed ALLOWED_ORIGINS.
C9_Witness ==
  /\ pc = "config_error"
  /\ env.ALLOWED_ORIGINS = "localhost:3000"

SameRequest(a, b) ==
  /\ req[a].method = req[b].method
  /\ req[a].path = req[b].path
  /\ req[a].cred = req[b].cred
  /\ req[a].origin = req[b].origin
  /\ req[a].acrm = req[b].acrm

EqualRequestsEqualResponses ==
  \A a, b \in 1..MaxReq :
    Done(a) /\ Done(b) /\ SameRequest(a, b) => req[a].resp = req[b].resp

AnswerIsIsolated ==
  \A r \in 1..MaxReq :
    /\ Done(r) => req'[r] = req[r]
    /\ req[r].pc # "done" /\ req'[r].pc = "done" =>
         /\ pc = "serving" /\ pc' = pc
         /\ \A q \in 1..MaxReq \ {r} : req'[q] = req[q]
         /\ UNCHANGED <<heap, lists, cache, settings, app, cors, log>>

====
